---- MODULE Spec2Model ----
(***************************************************************************)
(* A model of the level generation pipeline of erynrl (going-rogue):       *)
(* rectangle strategies (RectMethod), room carvers (RoomMethod), the       *)
(* cellular automaton, the RoomGenerator, the ElbowCorridorGenerator and   *)
(* the RoomsAndCorridorsGenerator that drives them.                        *)
(*                                                                         *)
(* Every call of the random module is a nondeterministic choice (\E) over  *)
(* the values the call can return.  An exception that leaves a method is   *)
(* the state pc = "raised" with the exception's name in `raised`.          *)
(***************************************************************************)
EXTENDS Integers, Sequences, FiniteSets, TLC

(***************************************************************************)
(* Bounds of the model.                                                    *)
(***************************************************************************)
\* width and height of the map (Map.size)
MapWidth == 6
MapHeight == 4
\* largest number_of_rooms a configuration asks for
MaxRooms == 2
\* largest number of methods an OrRoomMethod is given
MaxMethods == 3
\* largest number_of_rounds a cellular automaton configuration asks for
MaxRounds == 2
\* random.random() is drawn from the multiples of 1 / RandomSteps in [0, 1)
RandomSteps == 4
\* width of the cellular automaton that is run on its own
AtomatonWidth == 3

(***************************************************************************)
(* Program constants.                                                      *)
(***************************************************************************)
NUMBER_OF_ATTEMPTS_PER_RECT == 30
\* depth passed to tcod's split_recursive
BSP_DEPTH == 6
\* neighbour count at which a cell is Floor in the next round
CA_THRESHOLD == 5

(***************************************************************************)
(* erynrl/map/tile.py: the tiles, as names.  `walkable` is the field the   *)
(* generator reads.                                                        *)
(***************************************************************************)
Empty == "Empty"
Floor == "Floor"
Wall == "Wall"
StairsUp == "StairsUp"
StairsDown == "StairsDown"

Tiles == {Empty, Floor, Wall, StairsUp, StairsDown}

Walkable(tile) == tile \in {Floor, StairsUp, StairsDown}

(***************************************************************************)
(* erynrl/geometry.py                                                      *)
(***************************************************************************)
Point(x, y) == [x |-> x, y |-> y]

Size(w, h) == [width |-> w, height |-> h]

Rect(origin, size) == [origin |-> origin, size |-> size]

from_raw_values(x, y, w, h) == Rect(Point(x, y), Size(w, h))

min_x(r) == r.origin.x
min_y(r) == r.origin.y
mid_x(r) == r.origin.x + (r.size.width \div 2)
mid_y(r) == r.origin.y + (r.size.height \div 2)
max_x(r) == r.origin.x + r.size.width - 1
max_y(r) == r.origin.y + r.size.height - 1

midpoint(r) == Point(mid_x(r), mid_y(r))

\* Rect.intersects: four early returns of False, else True
intersects(self, other) ==
    IF min_x(other) > max_x(self) THEN FALSE
    ELSE IF max_x(other) < min_x(self) THEN FALSE
    ELSE IF min_y(other) > max_y(self) THEN FALSE
    ELSE IF max_y(other) < min_y(self) THEN FALSE
    ELSE TRUE

inset_rect(r, top, right, bottom, left) ==
    Rect(Point(r.origin.x + left, r.origin.y + top),
         Size(r.size.width - right - left, r.size.height - top - bottom))

\* Direction.all(): North first, then clockwise
Directions ==
    << <<0, -1>>, <<1, -1>>, <<1, 0>>, <<1, 1>>,
       <<0, 1>>, <<-1, 1>>, <<-1, 0>>, <<-1, -1>> >>

\* Point.neighbors: the eight points around p, in and out of any grid
neighbors(p) ==
    { Point(p.x + Directions[i][1], p.y + Directions[i][2]) : i \in 1..8 }

\* Point.__lt__: both coordinates strictly smaller (a partial order)
PointLt(a, b) == a.x < b.x /\ a.y < b.y

\* the cells of a rectangle
RectPoints(r) ==
    { Point(x, y) : x \in min_x(r)..max_x(r), y \in min_y(r)..max_y(r) }

\* Map.tile_is_in_bounds
tile_is_in_bounds(p) ==
    0 <= p.x /\ p.x < MapWidth /\ 0 <= p.y /\ p.y < MapHeight

MapPoints == { Point(x, y) : x \in 0..(MapWidth - 1), y \in 0..(MapHeight - 1) }

(***************************************************************************)
(* numpy indexing.  A grid is a function from the points of                *)
(* 0..w-1 x 0..h-1.  numpy accepts an index i of an axis of length n when  *)
(* -n <= i < n, a negative i counting from the end; any other index raises *)
(* IndexError.                                                             *)
(***************************************************************************)
GridPoints(w, h) == { Point(x, y) : x \in 0..(w - 1), y \in 0..(h - 1) }

NumpyIndexOk(i, n) == -n <= i /\ i < n

NumpyIndex(i, n) == IF i < 0 THEN i + n ELSE i

\* whether grid[p] can be read or written without IndexError
NumpyInRange(p, w, h) == NumpyIndexOk(p.x, w) /\ NumpyIndexOk(p.y, h)

\* the cell of the grid the index p names
NumpyCell(p, w, h) == Point(NumpyIndex(p.x, w), NumpyIndex(p.y, h))

\* np.full(shape, fill_value=tile)
make_grid(w, h, tile) == [p \in GridPoints(w, h) |-> tile]

(***************************************************************************)
(* erynrl/map/generator/cellular_atomata.py                                *)
(***************************************************************************)
\* _do_round, the count of one cell: 1 for the point itself, plus one for
\* each neighbour whose read does not raise IndexError and reads Floor
number_of_neighbors(from_tiles, w, h, pt) ==
    1 + Cardinality({ n \in neighbors(pt) :
                        /\ NumpyInRange(n, w, h)
                        /\ from_tiles[NumpyCell(n, w, h)] = Floor })

\* _do_round, the tile written to to_tiles at pt
next_tile(from_tiles, w, h, pt) ==
    LET alive == from_tiles[pt] = Floor
        count == number_of_neighbors(from_tiles, w, h, pt)
    IN  IF alive /\ count >= CA_THRESHOLD THEN Floor
        ELSE IF ~alive /\ count >= CA_THRESHOLD THEN Floor
        ELSE Empty

\* _do_round: every cell of to_tiles is written from from_tiles
do_round(from_tiles, w, h) ==
    [pt \in GridPoints(w, h) |-> next_tile(from_tiles, w, h, pt)]

\* _run_atomaton, the loop: round i reads self.tiles and writes
\* alternate_tiles when i is even, and the other way round when i is odd.
\* The value is the pair <<self.tiles, alternate_tiles>> after rounds i..n-1.
RECURSIVE run_rounds(_, _, _, _, _, _)
run_rounds(tiles, alternate_tiles, w, h, i, n) ==
    IF i >= n THEN <<tiles, alternate_tiles>>
    ELSE IF i % 2 = 0
         THEN run_rounds(tiles, do_round(tiles, w, h), w, h, i + 1, n)
         ELSE run_rounds(do_round(alternate_tiles, w, h), alternate_tiles, w, h, i + 1, n)

\* _run_atomaton, after the loop: self.tiles = alternate_tiles when
\* number_of_rounds is even
tiles_after_rounds(tiles, alternate_tiles, number_of_rounds) ==
    IF number_of_rounds % 2 = 0 THEN alternate_tiles ELSE tiles

\* a variant of the guard below that lets number_of_rounds = 0 through
TooFewRoundsBelowZero(number_of_rounds) == number_of_rounds < 0

\* the guard of _run_atomaton, `if number_of_rounds < 1: raise ValueError(...)`
TooFewRounds(number_of_rounds) == number_of_rounds < 1

\* _run_atomaton for number_of_rounds >= 1: the new self.tiles
run_atomaton(tiles, w, h, number_of_rounds) ==
    LET after == run_rounds(tiles, make_grid(w, h, Empty), w, h, 0, number_of_rounds)
    IN  tiles_after_rounds(after[1], after[2], number_of_rounds)

\* a variant of FillTiles with the comparison turned round
FillTilesAbove(fill_percentage) ==
    IF fill_percentage <= 0 THEN {Floor}
    ELSE IF fill_percentage >= 100 THEN {Empty}
    ELSE {Empty, Floor}

\* _fill: each cell is Floor if random.random() < fill_percentage, else
\* Empty.  random.random() is in [0, 1): with fill_percentage 0 no draw is
\* below it, with 1 every draw is.  fill_percentage is in percent here.
FillTiles(fill_percentage) ==
    IF fill_percentage <= 0 THEN {Empty}
    ELSE IF fill_percentage >= 100 THEN {Floor}
    ELSE {Empty, Floor}

\* the grids _fill can leave in self.tiles
fill_grids(w, h, fill_percentage) ==
    [GridPoints(w, h) -> FillTiles(fill_percentage)]

(***************************************************************************)
(* erynrl/map/room.py.  A room is a record: its class (kind), its bounds   *)
(* and, for a FreeformRoom, its own grid of tiles (in the room's           *)
(* coordinates).  The point properties are sequences, in the order the     *)
(* generators yield.                                                       *)
(***************************************************************************)
Max0(n) == IF n < 0 THEN 0 ELSE n

SeqSet(s) == { s[i] : i \in 1..Len(s) }

RectangularRoom(bounds) == [kind |-> "Rectangular", bounds |-> bounds, tiles |-> <<>>]

FreeformRoom(bounds, tiles) == [kind |-> "Freeform", bounds |-> bounds, tiles |-> tiles]

\* np.ndindex(shape) of a grid h high and w wide: y outside, x inside
ndindex(w, h) ==
    [i \in 1..(Max0(w) * Max0(h)) |-> Point((i - 1) % w, (i - 1) \div w)]

\* a variant of wall_points below that yields the top and bottom row only
RectangularWallRows(bounds) ==
    [i \in 1..(2 * Max0(bounds.size.width)) |->
        Point(min_x(bounds) + ((i - 1) \div 2),
              IF i % 2 = 1 THEN min_y(bounds) ELSE max_y(bounds))]

\* RectangularRoom.wall_points: top and bottom row by x, then the two
\* columns between them by y
RectangularWallPoints(bounds) ==
    LET w == Max0(bounds.size.width)
        h == Max0(bounds.size.height - 2)
        rows == [i \in 1..(2 * w) |->
                    Point(min_x(bounds) + ((i - 1) \div 2),
                          IF i % 2 = 1 THEN min_y(bounds) ELSE max_y(bounds))]
        cols == [i \in 1..(2 * h) |->
                    Point(IF i % 2 = 1 THEN min_x(bounds) ELSE max_x(bounds),
                          min_y(bounds) + 1 + ((i - 1) \div 2))]
    IN  rows \o cols

\* RectangularRoom.floor_points: the bounds inset by 1, x outside, y inside
RectangularFloorPoints(bounds) ==
    LET inset_bounds == inset_rect(bounds, 1, 1, 1, 1)
        w == Max0(inset_bounds.size.width)
        h == Max0(inset_bounds.size.height)
    IN  [i \in 1..(w * h) |->
            Point(min_x(inset_bounds) + ((i - 1) \div h),
                  min_y(inset_bounds) + ((i - 1) % h))]

\* RectangularRoom.walkable_tiles: the bounds inset by 1, y outside, x inside
RectangularWalkableTiles(bounds) ==
    LET floor_rect == inset_rect(bounds, 1, 1, 1, 1)
        w == Max0(floor_rect.size.width)
        h == Max0(floor_rect.size.height)
    IN  [i \in 1..(w * h) |->
            Point(min_x(floor_rect) + ((i - 1) % w),
                  min_y(floor_rect) + ((i - 1) \div w))]

\* FreeformRoom: the cells of its grid holding one of kept_tiles,
\* in np.ndindex order, moved by the origin of the bounds
FreeformPoints(room, kept_tiles) ==
    LET scan == ndindex(room.bounds.size.width, room.bounds.size.height)
        kept == SelectSeq(scan, LAMBDA p : room.tiles[p] \in kept_tiles)
    IN  [i \in 1..Len(kept) |->
            Point(kept[i].x + room.bounds.origin.x, kept[i].y + room.bounds.origin.y)]

wall_points(room) ==
    IF room.kind = "Rectangular" THEN RectangularWallPoints(room.bounds)
    ELSE FreeformPoints(room, {Wall})

floor_points(room) ==
    IF room.kind = "Rectangular" THEN RectangularFloorPoints(room.bounds)
    ELSE FreeformPoints(room, {Floor})

walkable_tiles(room) ==
    IF room.kind = "Rectangular" THEN RectangularWalkableTiles(room.bounds)
    ELSE FreeformPoints(room, { tile \in Tiles : Walkable(tile) })

(***************************************************************************)
(* erynrl/map/generator/room.py: the room methods.  room_in_rect either    *)
(* returns a room, returns None or raises; an outcome is a record saying   *)
(* which.                                                                  *)
(***************************************************************************)
Returned(room) == [type |-> "room", room |-> room, exc |-> ""]

ReturnedNone == [type |-> "none", room |-> <<>>, exc |-> ""]

Raises(exc) == [type |-> "raise", room |-> <<>>, exc |-> exc]

\* a variant of the copy below that leaves the automaton's tiles where
\* they are
room_tiles_copy_unmoved(rect, atomaton_tiles) ==
    [p \in GridPoints(rect.size.width, rect.size.height) |->
        IF p.x < rect.size.width - 2 /\ p.y < rect.size.height - 2
        THEN atomaton_tiles[p]
        ELSE Empty]

\* CellularAtomatonRoomMethod.room_in_rect, the copy: a grid of the size of
\* rect, Empty but for the automaton's tiles moved by (1, 1)
room_tiles_copy(rect, atomaton_tiles) ==
    [p \in GridPoints(rect.size.width, rect.size.height) |->
        IF /\ 1 <= p.x /\ p.x < rect.size.width - 1
           /\ 1 <= p.y /\ p.y < rect.size.height - 1
        THEN atomaton_tiles[Point(p.x - 1, p.y - 1)]
        ELSE Empty]

\* CellularAtomatonRoomMethod.room_in_rect, the walls: a cell that is not
\* Floor becomes Wall when one of its neighbours reads Floor (a read that
\* raises IndexError is passed over)
room_tiles_with_walls(rect, room_tiles) ==
    LET w == rect.size.width
        h == rect.size.height
    IN  [p \in GridPoints(w, h) |->
            IF room_tiles[p] = Floor THEN Floor
            ELSE IF \E n \in neighbors(p) :
                        /\ NumpyInRange(n, w, h)
                        /\ room_tiles[NumpyCell(n, w, h)] = Floor
                 THEN Wall
                 ELSE room_tiles[p]]

\* CellularAtomatonRoomMethod.room_in_rect: the outcomes over the draws of
\* _fill.  np.full raises ValueError for a negative dimension, and
\* _run_atomaton raises it for number_of_rounds < 1.
CellularAtomatonRoomOutcomes(rect, fill_percentage, number_of_rounds) ==
    LET atomaton_rect == inset_rect(rect, 1, 1, 1, 1)
        w == atomaton_rect.size.width
        h == atomaton_rect.size.height
    IN  IF w < 0 \/ h < 0 THEN {Raises("ValueError")}
        ELSE IF TooFewRounds(number_of_rounds) THEN {Raises("ValueError")}
        ELSE { Returned(FreeformRoom(rect,
                    room_tiles_with_walls(rect,
                        room_tiles_copy(rect, run_atomaton(seed, w, h, number_of_rounds)))))
               : seed \in fill_grids(w, h, fill_percentage) }

\* RectangularRoomMethod.room_in_rect
RectangularRoomOutcomes(rect) == {Returned(RectangularRoom(rect))}

\* RoomMethod.room_in_rect, the abstract method: Optional[Room].  A method
\* of another subclass may return None; when it returns a room, the room
\* is taken to be a RectangularRoom.
OptionalRoomOutcomes(rect) == {ReturnedNone, Returned(RectangularRoom(rect))}

\* OrRoomMethod.  self.methods is a sequence of pairs <<probability,
\* room method>>, the probability and the draw `factor` in units of
\* 1 / RandomSteps; the probabilities sum to 1 (the assert of __init__).
OrMethodKinds == {"Rectangular", "CellularAtomaton", "Optional"}

\* method[1].room_in_rect(rect) for a method of the list
method_room_in_rect(method, fill_percentage, number_of_rounds, rect) ==
    CASE method = "Rectangular" -> RectangularRoomOutcomes(rect)
      [] method = "CellularAtomaton" ->
            CellularAtomatonRoomOutcomes(rect, fill_percentage, number_of_rounds)
      [] OTHER -> OptionalRoomOutcomes(rect)

\* a variant of the test below that wants the factor below the threshold
FactorBelowThreshold(factor, threshold) == factor < threshold

\* OrRoomMethod.room_in_rect, the test of the loop: `if factor <= threshold`
FactorWithinThreshold(factor, threshold) == factor <= threshold

\* OrRoomMethod.room_in_rect, the loop from the i-th method on: the index
\* of the method that is called, 0 when the loop ends without a call
RECURSIVE OrMethodCalled(_, _, _, _)
OrMethodCalled(methods, factor, i, threshold) ==
    IF i > Len(methods) THEN 0
    ELSE IF FactorWithinThreshold(factor, threshold + methods[i][1]) THEN i
    ELSE OrMethodCalled(methods, factor, i + 1, threshold + methods[i][1])

\* OrRoomMethod.room_in_rect
OrRoomOutcomes(methods, factor, fill_percentage, number_of_rounds, rect) ==
    LET called == OrMethodCalled(methods, factor, 1, 0)
    IN  IF called = 0 THEN {ReturnedNone}
        ELSE method_room_in_rect(methods[called][2], fill_percentage, number_of_rounds, rect)

\* room_method.room_in_rect(rect) for the configured room method
room_in_rect(config, rect) ==
    CASE config.room_method = "Rectangular" -> RectangularRoomOutcomes(rect)
      [] config.room_method = "CellularAtomaton" ->
            CellularAtomatonRoomOutcomes(rect, config.fill_percentage, config.number_of_rounds)
      [] config.room_method = "Or" ->
            OrRoomOutcomes(config.methods, config.factor, config.fill_percentage,
                           config.number_of_rounds, rect)
      [] OTHER -> OptionalRoomOutcomes(rect)

(***************************************************************************)
(* Configurations.  Sizes are in cells, percentages in percent, and        *)
(* room_size_ratio in tenths (11 is 1.1).                                  *)
(*   rect_method   "OneBigRoom" | "Random" | "BSP"                         *)
(*   room_method   "Rectangular" | "CellularAtomaton" | "Optional"         *)
(*   corridor_arg  what the corridor generator is handed: "rooms_list" is  *)
(*                 RoomsAndCorridorsGenerator.generate as written (the     *)
(*                 list of rooms, then the array of tiles); "map" is an    *)
(*                 object with the attributes rooms and tiles, which is    *)
(*                 what ElbowCorridorGenerator reads from its argument     *)
(***************************************************************************)
\* the room sizes a rect method is configured with (the program's defaults
\* are 7x7 and 20x20 on a far larger map)
MinimumRoomSize(rect_method) == IF rect_method = "BSP" THEN Size(2, 2) ELSE Size(2, 3)

MaximumRoomSize(rect_method) == IF rect_method = "BSP" THEN Size(4, 4) ELSE Size(3, 3)

RectMethods == {"OneBigRoom", "Random", "BSP"}

CorridorArgs == {"rooms_list", "map"}

Configuration(rect_method, room_method, number_of_rooms, fill_percentage, number_of_rounds, corridor_arg) ==
    [rect_method |-> rect_method,
     room_method |-> room_method,
     number_of_rooms |-> number_of_rooms,
     minimum_room_size |-> MinimumRoomSize(rect_method),
     maximum_room_size |-> MaximumRoomSize(rect_method),
     room_size_ratio |-> <<11, 11>>,
     width_percentage |-> 70,
     height_percentage |-> 100,
     fill_percentage |-> fill_percentage,
     number_of_rounds |-> number_of_rounds,
     corridor_arg |-> corridor_arg]

\* rooms that are rectangles, or whatever an Optional[Room] method returns
PlainConfigurations ==
    { c \in { Configuration(rm, room, n, 50, 1, arg) :
                rm \in RectMethods, room \in {"Rectangular", "Optional"},
                n \in 0..(MaxRooms + 1), arg \in CorridorArgs } :
        c.number_of_rooms <= MaxRooms \/ c.rect_method = "BSP" }

\* rooms carved by the cellular automaton
AtomatonConfigurations ==
    { Configuration(rm, "CellularAtomaton", 1, fill, rounds, arg) :
        rm \in {"OneBigRoom", "Random"}, fill \in {0, 50, 100},
        rounds \in 0..MaxRounds, arg \in CorridorArgs }

Configurations == PlainConfigurations \cup AtomatonConfigurations

(***************************************************************************)
(* State.                                                                  *)
(***************************************************************************)
VARIABLES
    config,             \* the configuration of the run
    pc,                 \* where RoomsAndCorridorsGenerator.generate stands
    raised,             \* the exception that ended the run, or ""
    rects,              \* RandomRectMethod._rects
    attempts,           \* RandomRectMethod.generate: attempts made for the next rect
    nodes,              \* BSPRectMethod.generate: the nodes of bsp, in level order
    split,              \* the node split_recursive looks at next
    visit,              \* the node the level_order loop looks at next
    nodes_with_rooms,   \* BSPRectMethod.generate: nodes_with_rooms
    rect,               \* RoomGenerator.generate: rect, the rectangle last pulled
    rooms,              \* RoomGenerator.rooms
    up_stair_room,      \* _generate_stairs: up_stair_room (an index of rooms, 0 is None)
    down_stair_room,    \* _generate_stairs: down_stair_room
    up_stairs,          \* RoomGenerator.up_stairs
    down_stairs,        \* RoomGenerator.down_stairs
    tiles,              \* Map.tiles
    corridors,          \* ElbowCorridorGenerator.corridors
    yielded,            \* history: the rectangles rect_method.generate() yielded
    carved,             \* history: what room_in_rect did with each of them
    written,            \* history: every index a tile of Map.tiles was written at
    generation,         \* how many times RoomsAndCorridorsGenerator.generate was called
    atomaton            \* a CellularAtomataMapGenerator run on its own

vars ==
    <<config, pc, raised, rects, attempts, nodes, split, visit, nodes_with_rooms,
      rect, rooms, up_stair_room, down_stair_room, up_stairs, down_stairs, tiles,
      corridors, yielded, carved, written, generation, atomaton>>

rect_vars == <<rects, attempts, nodes, split, visit, nodes_with_rooms>>

stair_vars == <<up_stair_room, down_stair_room, up_stairs, down_stairs>>

map_vars == <<tiles, corridors, written>>

NoRect == Rect(Point(0, 0), Size(0, 0))

\* a CellularAtomataMapGenerator nobody has constructed
NoAtomaton == [pc |-> "none"]

\* tcod.bsp.BSP(x=0, y=0, width, height): a tree of one node
BSPRoot == [x |-> 0, y |-> 0, w |-> MapWidth, h |-> MapHeight, parent |-> 0, level |-> 0]

\* the state after the constructors: RoomGenerator.__init__,
\* RandomRectMethod.__init__, ElbowCorridorGenerator.__init__, Map.__init__
Constructed ==
    /\ pc = "rect"
    /\ raised = ""
    /\ rects = <<>>
    /\ attempts = 0
    /\ nodes = <<BSPRoot>>
    /\ split = 1
    /\ visit = 1
    /\ nodes_with_rooms = {}
    /\ rect = NoRect
    /\ rooms = <<>>
    /\ up_stair_room = 0
    /\ down_stair_room = 0
    /\ up_stairs = <<>>
    /\ down_stairs = <<>>
    /\ tiles = make_grid(MapWidth, MapHeight, Empty)
    /\ corridors = <<>>
    /\ yielded = <<>>
    /\ carved = <<>>
    /\ written = {}
    /\ generation = 1

Init ==
    /\ config \in Configurations
    /\ Constructed
    /\ atomaton = NoAtomaton

\* an exception leaves the method: the run is over
Raise(exc) ==
    /\ pc' = "raised"
    /\ raised' = exc

\* rect_method.generate() yields r to the loop of RoomGenerator.generate
Yield(r) ==
    /\ rect' = r
    /\ yielded' = Append(yielded, r)
    /\ pc' = "room"
    /\ raised' = raised

\* a variant of AfterRooms that goes back to pulling rectangles
AfterRoomsPullsAgain(the_rooms) == "rect"

\* rect_method.generate() is exhausted: the for loop of
\* RoomGenerator.generate ends, and `if len(self.rooms) == 0: return`
\* decides whether _generate_stairs is called
AfterRooms(the_rooms) == IF Len(the_rooms) = 0 THEN "apply" ELSE "stairs_up"

Exhausted ==
    /\ pc' = AfterRooms(rooms)
    /\ UNCHANGED <<raised, rect, yielded>>

(***************************************************************************)
(* OneBigRoomRectMethod.generate                                           *)
(***************************************************************************)
OneBigRoomRect ==
    LET width == MapWidth
        height == MapHeight
        size == Size((width * config.width_percentage) \div 100,
                     (height * config.height_percentage) \div 100)
        origin == Point((width - size.width) \div 2, (height - size.height) \div 2)
    IN  Rect(origin, size)

OneBigRoomYield ==
    /\ pc = "rect"
    /\ config.rect_method = "OneBigRoom"
    /\ Len(yielded) = 0
    /\ Yield(OneBigRoomRect)
    /\ UNCHANGED <<config, generation, rect_vars, rooms, stair_vars, map_vars, carved, atomaton>>

OneBigRoomReturn ==
    /\ pc = "rect"
    /\ config.rect_method = "OneBigRoom"
    /\ Len(yielded) > 0
    /\ Exhausted
    /\ UNCHANGED <<config, generation, rect_vars, rooms, stair_vars, map_vars, carved, atomaton>>

(***************************************************************************)
(* RandomRectMethod.generate                                               *)
(***************************************************************************)
\* a variant of the test below that finds no overlap
overlaps_no_existing_room(candidate_rect, the_rects) == FALSE

\* any(candidate_rect.intersects(r) for r in self._rects)
overlaps_any_existing_room(candidate_rect, the_rects) ==
    \E i \in 1..Len(the_rects) : intersects(candidate_rect, the_rects[i])

\* the sizes random.randint draws for a candidate
CandidateSizes ==
    { Size(w, h) : w \in config.minimum_room_size.width..config.maximum_room_size.width,
                   h \in config.minimum_room_size.height..config.maximum_room_size.height }

\* a variant of CandidateOrigins whose draws start at -1
CandidateOriginsFromMinusOne(size) ==
    { Point(x, y) : x \in (-1)..(MapWidth - size.width), y \in (-1)..(MapHeight - size.height) }

\* the origins random.randint(0, self.size.width - size.width) and
\* random.randint(0, self.size.height - size.height) draw
CandidateOrigins(size) ==
    { Point(x, y) : x \in 0..(MapWidth - size.width), y \in 0..(MapHeight - size.height) }

\* the test of the while loop
WantsMoreRects == Len(rects) < config.number_of_rooms

\* a variant of the test below that allows one pass more
HasAttemptsLeftOneMore(made) == made <= NUMBER_OF_ATTEMPTS_PER_RECT

\* `for _ in range(NUMBER_OF_ATTEMPTS_PER_RECT)`: whether a pass is left
\* after `made` passes
HasAttemptsLeft(made) == made < NUMBER_OF_ATTEMPTS_PER_RECT

\* one pass of `for _ in range(NUMBER_OF_ATTEMPTS_PER_RECT)`: a candidate
\* that overlaps no accepted rect is appended and yielded; randint raises
\* ValueError when its range is empty
RandomRectAttempt ==
    /\ pc = "rect"
    /\ config.rect_method = "Random"
    /\ WantsMoreRects
    /\ HasAttemptsLeft(attempts)
    /\ \E size \in CandidateSizes :
         IF size.width > MapWidth \/ size.height > MapHeight
         THEN /\ Raise("ValueError")
              /\ UNCHANGED <<rects, attempts, rect, yielded>>
         ELSE \E origin \in CandidateOrigins(size) :
                LET candidate_rect == Rect(origin, size)
                IN  IF ~overlaps_any_existing_room(candidate_rect, rects)
                    THEN /\ rects' = Append(rects, candidate_rect)
                         /\ attempts' = 0
                         /\ Yield(candidate_rect)
                    ELSE /\ attempts' = attempts + 1
                         /\ UNCHANGED <<pc, raised, rects, rect, yielded>>
    /\ UNCHANGED <<config, generation, nodes, split, visit, nodes_with_rooms, rooms, stair_vars,
                   map_vars, carved, atomaton>>

\* the else of the for loop: every attempt overlapped, the generator returns
RandomRectGiveUp ==
    /\ pc = "rect"
    /\ config.rect_method = "Random"
    /\ WantsMoreRects
    /\ ~HasAttemptsLeft(attempts)
    /\ Exhausted
    /\ UNCHANGED <<config, generation, rect_vars, rooms, stair_vars, map_vars, carved, atomaton>>

\* the while loop ends: number_of_rooms rects are accepted
RandomRectReturn ==
    /\ pc = "rect"
    /\ config.rect_method = "Random"
    /\ ~WantsMoreRects
    /\ Exhausted
    /\ UNCHANGED <<config, generation, rect_vars, rooms, stair_vars, map_vars, carved, atomaton>>

(***************************************************************************)
(* BSPRectMethod.generate.  The tree is tcod's: split_recursive splits a   *)
(* node in two unless the depth is used up or the node is smaller than     *)
(* twice the minimum size both ways; it picks the direction by the ratios, *)
(* or at random, and the position at random between the minimum sizes.     *)
(* The nodes are kept in the order level_order visits them: a node's       *)
(* children are appended when the node is split, nodes are split in        *)
(* sequence order.                                                         *)
(***************************************************************************)
\* the random direction and position of one split: <<horizontal, position>>
BSPSplits(node) ==
    LET minH == config.minimum_room_size.width
        minV == config.minimum_room_size.height
        horizontals ==
            IF node.h < 2 * minV \/ node.w * 10 > node.h * config.room_size_ratio[1]
            THEN {FALSE}
            ELSE IF node.w < 2 * minH \/ node.h * 10 > node.w * config.room_size_ratio[2]
                 THEN {TRUE}
                 ELSE {TRUE, FALSE}
        lo(horiz) == IF horiz THEN node.y + minV ELSE node.x + minH
        hi(horiz) == IF horiz THEN node.y + node.h - minV ELSE node.x + node.w - minH
        positions(horiz) ==
            IF lo(horiz) <= hi(horiz) THEN lo(horiz)..hi(horiz) ELSE hi(horiz)..lo(horiz)
    IN  { s \in horizontals \X (0..(MapWidth + MapHeight)) : s[2] \in positions(s[1]) }

\* the two children of a node split at <<horizontal, position>>
BSPChildren(node, index, horiz, position) ==
    IF horiz
    THEN << [x |-> node.x, y |-> node.y, w |-> node.w, h |-> position - node.y,
             parent |-> index, level |-> node.level + 1],
            [x |-> node.x, y |-> position, w |-> node.w, h |-> node.y + node.h - position,
             parent |-> index, level |-> node.level + 1] >>
    ELSE << [x |-> node.x, y |-> node.y, w |-> position - node.x, h |-> node.h,
             parent |-> index, level |-> node.level + 1],
            [x |-> position, y |-> node.y, w |-> node.x + node.w - position, h |-> node.h,
             parent |-> index, level |-> node.level + 1] >>

\* whether split_recursive leaves the node a leaf
BSPIsLeaf(node) ==
    \/ BSP_DEPTH - node.level = 0
    \/ /\ node.w < 2 * config.minimum_room_size.width
       /\ node.h < 2 * config.minimum_room_size.height

TreeBuilt == split > Len(nodes)

\* bsp.split_recursive, one node of it
BSPSplit ==
    /\ pc = "rect"
    /\ config.rect_method = "BSP"
    /\ ~TreeBuilt
    /\ IF BSPIsLeaf(nodes[split])
       THEN nodes' = nodes
       ELSE \E s \in BSPSplits(nodes[split]) :
                nodes' = nodes \o BSPChildren(nodes[split], split, s[1], s[2])
    /\ split' = split + 1
    /\ UNCHANGED <<config, generation, pc, raised, rects, attempts, visit, nodes_with_rooms, rect,
                   rooms, stair_vars, map_vars, yielded, carved, atomaton>>

\* __all_parents_of_node: the node, its parent, its parent's parent, ...
RECURSIVE all_parents_of_node(_, _)
all_parents_of_node(the_nodes, node) ==
    IF node = 0 THEN {}
    ELSE {node} \cup all_parents_of_node(the_nodes, the_nodes[node].parent)

\* fractions <<numerator, denominator>> with a positive denominator
FracLe(a, b) == a[1] * b[2] <= b[1] * a[2]

FracMax(a, b) == IF FracLe(a, b) THEN b ELSE a

\* 1.0 / n for n # 0
Reciprocal(n) == IF n > 0 THEN <<1, n>> ELSE <<-1, -n>>

\* probability_of_room: the larger of the two reciprocals, and 1.0 when a
\* division raises ZeroDivisionError
probability_of_room(node_width, node_height, minimum_room_size) ==
    IF node_width - minimum_room_size.width = 0 \/ node_height - minimum_room_size.height = 0
    THEN <<1, 1>>
    ELSE FracMax(Reciprocal(node_width - minimum_room_size.width),
                 Reciprocal(node_height - minimum_room_size.height))

\* the values random.random() is drawn from: k / RandomSteps, 0 <= k < RandomSteps
RandomDraws == { <<k, RandomSteps>> : k \in 0..(RandomSteps - 1) }

\* the first test of the loop body: the node exceeds the maximum size
ExceedsMaximumSize(node) ==
    node.w > config.maximum_room_size.width \/ node.h > config.maximum_room_size.height

\* a variant of the second test that never finds enough rooms
NeverGeneratedEnoughRooms(with_rooms) == FALSE

\* the second test: as many rooms as allowed are made
GeneratedEnoughRooms(with_rooms) == Cardinality(with_rooms) >= config.number_of_rooms

\* a variant of the third test that looks at the node alone
HasRoomAtNode(the_nodes, with_rooms, node) == node \in with_rooms

\* the third test: a room was made for the node or one of its parents
HasRoomAbove(the_nodes, with_rooms, node) ==
    \E n \in all_parents_of_node(the_nodes, node) : n \in with_rooms

\* one pass of `for bsp_node in bsp.level_order()`
BSPVisit ==
    /\ pc = "rect"
    /\ config.rect_method = "BSP"
    /\ TreeBuilt
    /\ visit <= Len(nodes)
    /\ LET bsp_node == nodes[visit]
       IN  IF ExceedsMaximumSize(bsp_node)
           THEN /\ visit' = visit + 1
                /\ UNCHANGED <<pc, raised, nodes_with_rooms, rect, yielded>>
           ELSE IF GeneratedEnoughRooms(nodes_with_rooms)
           THEN /\ visit' = Len(nodes) + 1
                /\ Exhausted
                /\ UNCHANGED nodes_with_rooms
           ELSE IF HasRoomAbove(nodes, nodes_with_rooms, visit)
           THEN /\ visit' = visit + 1
                /\ UNCHANGED <<pc, raised, nodes_with_rooms, rect, yielded>>
           ELSE \E draw \in RandomDraws :
                  IF FracLe(draw, probability_of_room(bsp_node.w, bsp_node.h,
                                                      config.minimum_room_size))
                  THEN /\ nodes_with_rooms' = nodes_with_rooms \cup {visit}
                       /\ visit' = visit + 1
                       /\ Yield(from_raw_values(bsp_node.x, bsp_node.y, bsp_node.w, bsp_node.h))
                  ELSE /\ visit' = visit + 1
                       /\ UNCHANGED <<pc, raised, nodes_with_rooms, rect, yielded>>
    /\ UNCHANGED <<config, generation, rects, attempts, nodes, split, rooms, stair_vars, map_vars,
                   carved, atomaton>>

\* level_order is exhausted: the generator returns
BSPReturn ==
    /\ pc = "rect"
    /\ config.rect_method = "BSP"
    /\ TreeBuilt
    /\ visit > Len(nodes)
    /\ Exhausted
    /\ UNCHANGED <<config, generation, rect_vars, rooms, stair_vars, map_vars, carved, atomaton>>

(***************************************************************************)
(* RoomGenerator.generate: the body of the for loop                        *)
(***************************************************************************)
\* room = room_method.room_in_rect(rect); if not room: break;
\* self.rooms.append(room)
RoomInRect ==
    /\ pc = "room"
    /\ \E outcome \in room_in_rect(config, rect) :
         /\ carved' = Append(carved, outcome.type)
         /\ CASE outcome.type = "raise" ->
                    /\ Raise(outcome.exc)
                    /\ rooms' = rooms
              [] outcome.type = "none" ->
                    /\ pc' = AfterRooms(rooms)
                    /\ UNCHANGED <<raised, rooms>>
              [] OTHER ->
                    /\ rooms' = Append(rooms, outcome.room)
                    /\ pc' = "rect"
                    /\ raised' = raised
    /\ UNCHANGED <<config, generation, rect_vars, rect, stair_vars, map_vars, yielded, atomaton>>

(***************************************************************************)
(* RoomGenerator._generate_stairs                                          *)
(***************************************************************************)
\* up_stair_room = random.choice(self.rooms); down_stair_room = None, or
\* up_stair_room when there is one room
StairsUpRoom ==
    /\ pc = "stairs_up"
    /\ \E room \in 1..Len(rooms) :
         /\ up_stair_room' = room
         /\ IF Len(rooms) >= 2
            THEN /\ down_stair_room' = 0
                 /\ pc' = "stairs_down"
            ELSE /\ down_stair_room' = room
                 /\ pc' = "stairs_points"
    /\ UNCHANGED <<config, generation, raised, rect_vars, rect, rooms, up_stairs, down_stairs,
                   map_vars, yielded, carved, atomaton>>

\* a variant of the test below that accepts the first room drawn
DrawsDownStairRoomWhileNone(down, up) == down = 0

\* a variant of the test below that never lets the loop end
DrawsDownStairRoomForever(down, up) == TRUE

\* the test of `while down_stair_room is None or down_stair_room == up_stair_room`
\* (rooms are compared by identity: Room defines no __eq__)
DrawsDownStairRoomAgain(down, up) == down = 0 \/ down = up

\* one pass of the while loop: down_stair_room = random.choice(self.rooms)
StairsDownRoom ==
    /\ pc = "stairs_down"
    /\ DrawsDownStairRoomAgain(down_stair_room, up_stair_room)
    /\ \E room \in 1..Len(rooms) :
         /\ down_stair_room' = room
         /\ pc' = IF DrawsDownStairRoomAgain(room, up_stair_room)
                  THEN "stairs_down" ELSE "stairs_points"
    /\ UNCHANGED <<config, generation, raised, rect_vars, rect, rooms, up_stair_room, up_stairs,
                   down_stairs, map_vars, yielded, carved, atomaton>>

\* the two appends: random.choice(list(room.walkable_tiles)) raises
\* IndexError for an empty list
StairsPoints ==
    /\ pc = "stairs_points"
    /\ LET up_tiles == walkable_tiles(rooms[up_stair_room])
           down_tiles == walkable_tiles(rooms[down_stair_room])
       IN  IF Len(up_tiles) = 0
           THEN /\ Raise("IndexError")
                /\ UNCHANGED <<up_stairs, down_stairs>>
           ELSE \E i \in 1..Len(up_tiles) :
                  /\ up_stairs' = Append(up_stairs, up_tiles[i])
                  /\ IF Len(down_tiles) = 0
                     THEN /\ Raise("IndexError")
                          /\ UNCHANGED down_stairs
                     ELSE \E j \in 1..Len(down_tiles) :
                            /\ down_stairs' = Append(down_stairs, down_tiles[j])
                            /\ pc' = "apply"
                            /\ raised' = raised
    /\ UNCHANGED <<config, generation, rect_vars, rect, rooms, up_stair_room, down_stair_room,
                   map_vars, yielded, carved, atomaton>>

(***************************************************************************)
(* Writing Map.tiles.  A grid state is the tiles, the indices written so   *)
(* far and whether an index raised IndexError (nothing is written after).  *)
(* Map.tiles has shape (width, height) and is indexed [x, y].  A loop over *)
(* points is modelled by its result: the writes of the points before the   *)
(* first one whose index raises.                                           *)
(***************************************************************************)
GridState(the_tiles, the_written) == [tiles |-> the_tiles, written |-> the_written, ok |-> TRUE]

\* how many points of pts are indexed before one raises IndexError
IndexedPrefix(pts) ==
    LET bad == { i \in 1..Len(pts) : ~NumpyInRange(pts[i], MapWidth, MapHeight) }
    IN  IF bad = {} THEN Len(pts) ELSE (CHOOSE i \in bad : \A j \in bad : i <= j) - 1

MapCell(pt) == NumpyCell(pt, MapWidth, MapHeight)

\* for pt in pts: tiles[pt] = tile
WriteTiles(g, pts, tile) ==
    LET n == IndexedPrefix(pts)
        cells == { MapCell(pts[i]) : i \in 1..n }
    IN  IF ~g.ok THEN g
        ELSE [tiles |-> [p \in DOMAIN g.tiles |-> IF p \in cells THEN tile ELSE g.tiles[p]],
              written |-> g.written \cup { pts[i] : i \in 1..n },
              ok |-> n = Len(pts)]

\* a variant of WriteWalls without the test for Empty
WriteWallsOverAnything(g, pts) == WriteTiles(g, pts, Wall)

\* for pt in pts: if tiles[pt] != Empty: continue; tiles[pt] = Wall
WriteWalls(g, pts) ==
    LET n == IndexedPrefix(pts)
        walled == { i \in 1..n : g.tiles[MapCell(pts[i])] = Empty }
        cells == { MapCell(pts[i]) : i \in walled }
    IN  IF ~g.ok THEN g
        ELSE [tiles |-> [p \in DOMAIN g.tiles |-> IF p \in cells THEN Wall ELSE g.tiles[p]],
              written |-> g.written \cup { pts[i] : i \in walled },
              ok |-> n = Len(pts)]

(***************************************************************************)
(* RoomGenerator.apply: _apply, then _apply_stairs                         *)
(***************************************************************************)
\* the first loop of _apply: the floor points of every room
RECURSIVE ApplyFloors(_, _, _)
ApplyFloors(g, the_rooms, i) ==
    IF i > Len(the_rooms) THEN g
    ELSE ApplyFloors(WriteTiles(g, floor_points(the_rooms[i]), Floor), the_rooms, i + 1)

\* the second loop of _apply: the wall points of every room
RECURSIVE ApplyWalls(_, _, _)
ApplyWalls(g, the_rooms, i) ==
    IF i > Len(the_rooms) THEN g
    ELSE ApplyWalls(WriteWalls(g, wall_points(the_rooms[i])), the_rooms, i + 1)

\* _apply: all floors, then all walls
ApplyRooms(g, the_rooms) == ApplyWalls(ApplyFloors(g, the_rooms, 1), the_rooms, 1)

\* _apply_stairs: the up stairs, then the down stairs
ApplyStairsTiles(g, ups, downs) ==
    WriteTiles(WriteTiles(g, ups, StairsUp), downs, StairsDown)

\* the grid state becomes the state of the map; an IndexError ends the run
Written(g, next_pc) ==
    /\ tiles' = g.tiles
    /\ written' = g.written
    /\ IF g.ok THEN pc' = next_pc /\ raised' = raised ELSE Raise("IndexError")

Apply ==
    /\ pc = "apply"
    /\ Written(ApplyRooms(GridState(tiles, written), rooms), "apply_stairs")
    /\ UNCHANGED <<config, generation, rect_vars, rect, rooms, stair_vars, corridors, yielded,
                   carved, atomaton>>

ApplyStairs ==
    /\ pc = "apply_stairs"
    /\ Written(ApplyStairsTiles(GridState(tiles, written), up_stairs, down_stairs),
               "corridors")
    /\ UNCHANGED <<config, generation, rect_vars, rect, rooms, stair_vars, corridors, yielded,
                   carved, atomaton>>

(***************************************************************************)
(* sorted(rooms, key=lambda r: r.bounds.origin): CPython's list.sort for   *)
(* fewer than 64 items is count_run (the leading run, reversed when it is  *)
(* strictly descending) followed by a binary insertion sort of the rest;   *)
(* its only comparison is key(a) < key(b), here Point.__lt__.              *)
(***************************************************************************)
RoomLt(a, b) == PointLt(a.bounds.origin, b.bounds.origin)

Reverse(s) == [i \in 1..Len(s) |-> s[Len(s) + 1 - i]]

\* count_run, the descending case: the end of the run that starts at 1
RECURSIVE DescendingRunEnd(_, _)
DescendingRunEnd(s, k) ==
    IF k < Len(s) /\ RoomLt(s[k + 1], s[k]) THEN DescendingRunEnd(s, k + 1) ELSE k

\* count_run, the ascending case
RECURSIVE AscendingRunEnd(_, _)
AscendingRunEnd(s, k) ==
    IF k < Len(s) /\ ~RoomLt(s[k + 1], s[k]) THEN AscendingRunEnd(s, k + 1) ELSE k

\* binarysort, the search: where pivot goes in the sorted s[l..r-1]
RECURSIVE BinarySearch(_, _, _, _)
BinarySearch(s, pivot, l, r) ==
    IF l >= r THEN l
    ELSE LET p == l + ((r - l) \div 2)
         IN  IF RoomLt(pivot, s[p]) THEN BinarySearch(s, pivot, l, p)
             ELSE BinarySearch(s, pivot, p + 1, r)

\* binarysort: s[1..start-1] is sorted, each later item is inserted
RECURSIVE BinarySort(_, _)
BinarySort(s, start) ==
    IF start > Len(s) THEN s
    ELSE LET pivot == s[start]
             l == BinarySearch(s, pivot, 1, start)
             moved == [i \in 1..Len(s) |->
                          IF i < l THEN s[i]
                          ELSE IF i = l THEN pivot
                          ELSE IF i <= start THEN s[i - 1]
                          ELSE s[i]]
         IN  BinarySort(moved, start + 1)

\* CorridorGenerator._sorted_rooms
sorted_rooms(the_rooms) ==
    IF Len(the_rooms) < 2 THEN the_rooms
    ELSE IF RoomLt(the_rooms[2], the_rooms[1])
         THEN LET n == DescendingRunEnd(the_rooms, 2)
                  run == Reverse(SubSeq(the_rooms, 1, n))
              IN  BinarySort(run \o SubSeq(the_rooms, n + 1, Len(the_rooms)), n + 1)
         ELSE BinarySort(the_rooms, AscendingRunEnd(the_rooms, 2) + 1)

(***************************************************************************)
(* tcod.los.bresenham(start, end): the points of the line, both ends       *)
(* included.                                                               *)
(***************************************************************************)
Sign(n) == IF n > 0 THEN 1 ELSE IF n < 0 THEN -1 ELSE 0

Abs(n) == IF n < 0 THEN -n ELSE n

\* one step at a time along the longer axis, the error term e deciding the
\* steps along the other
RECURSIVE BresenhamFrom(_, _, _, _)
BresenhamFrom(p, end, e, line) ==
    LET dx == 2 * Abs(end.x - line.x)
        dy == 2 * Abs(end.y - line.y)
    IN  IF dx > dy
        THEN IF p.x = end.x THEN <<p>>
             ELSE LET e1 == e - dy
                      q == IF e1 < 0 THEN Point(p.x + line.sx, p.y + line.sy)
                           ELSE Point(p.x + line.sx, p.y)
                  IN  <<p>> \o BresenhamFrom(q, end, IF e1 < 0 THEN e1 + dx ELSE e1, line)
        ELSE IF p.y = end.y THEN <<p>>
             ELSE LET e1 == e - dx
                      q == IF e1 < 0 THEN Point(p.x + line.sx, p.y + line.sy)
                           ELSE Point(p.x, p.y + line.sy)
                  IN  <<p>> \o BresenhamFrom(q, end, IF e1 < 0 THEN e1 + dy ELSE e1, line)

\* a variant of the line below that has the two ends only
bresenham_ends_only(start, end) == <<start, end>>

bresenham(start, end) ==
    LET adx == Abs(end.x - start.x)
        ady == Abs(end.y - start.y)
        line == [x |-> start.x, y |-> start.y,
                 sx |-> Sign(end.x - start.x), sy |-> Sign(end.y - start.y)]
    IN  BresenhamFrom(start, end, IF adx > ady THEN adx ELSE ady, line)

(***************************************************************************)
(* erynrl/map/generator/corridor.py: ElbowCorridorGenerator                *)
(***************************************************************************)
\* a variant of the corner below that is the end point itself
corner_at_end(start_point, end_point, horizontal_first) == end_point

\* the corner of the elbow
corner_between(start_point, end_point, horizontal_first) ==
    IF horizontal_first THEN Point(end_point.x, start_point.y)
    ELSE Point(start_point.x, end_point.y)

\* _generate_corridor_between: start to corner, then corner to end
generate_corridor_between(left_room, right_room, horizontal_first) ==
    LET start_point == midpoint(left_room.bounds)
        end_point == midpoint(right_room.bounds)
        corner == corner_between(start_point, end_point, horizontal_first)
    IN  bresenham(start_point, corner) \o bresenham(corner, end_point)

\* a variant of the loop below that joins every room to the first
corridors_from_first(the_rooms, draws) ==
    LET sorted == sorted_rooms(the_rooms)
    IN  [i \in 1..(Len(sorted) - 1) |->
            generate_corridor_between(sorted[1], sorted[i + 1], draws[i])]

\* generate, the loop over pairwise(sorted_rooms): one corridor per pair of
\* neighbours, draws[i] being `random.random() < 0.5` for the i-th
corridors_between(the_rooms, draws) ==
    LET sorted == sorted_rooms(the_rooms)
    IN  [i \in 1..(Len(sorted) - 1) |->
            generate_corridor_between(sorted[i], sorted[i + 1], draws[i])]

\* whether the argument the corridor generator is handed has the attribute
\* it reads (map.rooms in generate, map.tiles in apply): a Map-like object
\* has, a list of rooms and an array of tiles have not
HasMapAttributes(corridor_arg) == corridor_arg = "map"

\* ElbowCorridorGenerator.generate(map): rooms = map.rooms raises
\* AttributeError when map has no such attribute
CorridorGenerate ==
    /\ pc = "corridors"
    /\ IF ~HasMapAttributes(config.corridor_arg)
       THEN /\ Raise("AttributeError")
            /\ corridors' = corridors
       ELSE /\ IF Len(rooms) < 2
               THEN corridors' = corridors
               ELSE \E draws \in [1..(Len(rooms) - 1) -> BOOLEAN] :
                        corridors' = corridors \o corridors_between(rooms, draws)
            /\ pc' = "apply_corridors"
            /\ raised' = raised
    /\ UNCHANGED <<config, generation, rect_vars, rect, rooms, stair_vars, tiles, written, yielded,
                   carved, atomaton>>

\* apply, the test of the inner loop: the neighbour is inside the array
InsideTiles(neighbor) ==
    0 <= neighbor.x /\ neighbor.x < MapWidth /\ 0 <= neighbor.y /\ neighbor.y < MapHeight

\* a variant of WriteCorridor below that makes every neighbour Wall
WriteCorridorWallsAll(g, corridor) ==
    LET n == IndexedPrefix(corridor)
        floors == { MapCell(corridor[i]) : i \in 1..n }
        beside == UNION { { nb \in neighbors(corridor[i]) : InsideTiles(nb) } : i \in 1..n }
    IN  IF ~g.ok THEN g
        ELSE [tiles |-> [p \in DOMAIN g.tiles |->
                            IF p \in floors THEN Floor
                            ELSE IF p \in beside THEN Wall
                            ELSE g.tiles[p]],
              written |-> g.written \cup { corridor[i] : i \in 1..n } \cup beside,
              ok |-> n = Len(corridor)]

\* apply, one corridor: each point is made Floor, then each of its
\* neighbours that is inside the array and still Empty is made Wall.  A
\* point made Wall as a neighbour is made Floor when the loop comes to it,
\* and a Floor is never made Wall again.
WriteCorridor(g, corridor) ==
    LET n == IndexedPrefix(corridor)
        floors == { MapCell(corridor[i]) : i \in 1..n }
        beside == UNION { { nb \in neighbors(corridor[i]) : InsideTiles(nb) } : i \in 1..n }
        walled == { nb \in beside : g.tiles[nb] = Empty }
    IN  IF ~g.ok THEN g
        ELSE [tiles |-> [p \in DOMAIN g.tiles |->
                            IF p \in floors THEN Floor
                            ELSE IF p \in walled THEN Wall
                            ELSE g.tiles[p]],
              written |-> g.written \cup { corridor[i] : i \in 1..n } \cup walled,
              ok |-> n = Len(corridor)]

RECURSIVE WriteCorridors(_, _, _)
WriteCorridors(g, the_corridors, i) ==
    IF i > Len(the_corridors) THEN g
    ELSE WriteCorridors(WriteCorridor(g, the_corridors[i]), the_corridors, i + 1)

\* ElbowCorridorGenerator.apply(map)
CorridorApply ==
    /\ pc = "apply_corridors"
    /\ IF ~HasMapAttributes(config.corridor_arg)
       THEN /\ Raise("AttributeError")
            /\ UNCHANGED <<tiles, written>>
       ELSE Written(WriteCorridors(GridState(tiles, written), corridors, 1), "done")
    /\ UNCHANGED <<config, generation, rect_vars, rect, rooms, stair_vars, corridors, yielded,
                   carved, atomaton>>

(***************************************************************************)
(* RoomsAndCorridorsGenerator.generate: room_generator.generate(),         *)
(* room_generator.apply(map), corridor_generator.generate(...),            *)
(* corridor_generator.apply(...), in that order.                           *)
(***************************************************************************)
Next ==
    \/ OneBigRoomYield
    \/ OneBigRoomReturn
    \/ RandomRectAttempt
    \/ RandomRectGiveUp
    \/ RandomRectReturn
    \/ BSPSplit
    \/ BSPVisit
    \/ BSPReturn
    \/ RoomInRect
    \/ StairsUpRoom
    \/ StairsDownRoom
    \/ StairsPoints
    \/ Apply
    \/ ApplyStairs
    \/ CorridorGenerate
    \/ CorridorApply

Spec == Init /\ [][Next]_vars

(***************************************************************************)
(* RoomsAndCorridorsGenerator.generate(map) called a second time, on the   *)
(* same generator objects and the same map, once the first call is over.   *)
(* What the objects hold stays (RoomGenerator.rooms, up_stairs and         *)
(* down_stairs, RandomRectMethod._rects, ElbowCorridorGenerator.corridors, *)
(* Map.tiles): generate() resets none of it.  What is local to the methods *)
(* starts afresh (the attempt counter, the BSP tree and nodes_with_rooms,  *)
(* the stair rooms), and so do the histories of the run.                   *)
(***************************************************************************)
Regenerate ==
    /\ pc = "done"
    /\ generation = 1
    /\ generation' = 2
    /\ pc' = "rect"
    /\ attempts' = 0
    /\ nodes' = <<BSPRoot>>
    /\ split' = 1
    /\ visit' = 1
    /\ nodes_with_rooms' = {}
    /\ rect' = NoRect
    /\ up_stair_room' = 0
    /\ down_stair_room' = 0
    /\ yielded' = <<>>
    /\ carved' = <<>>
    /\ UNCHANGED <<config, raised, rects, rooms, up_stairs, down_stairs, map_vars, atomaton>>

\* the runs that can come to a second call: rectangular rooms, and a
\* corridor generator handed what it reads
InitRegenerate ==
    /\ Init
    /\ config.room_method = "Rectangular"
    /\ HasMapAttributes(config.corridor_arg)

NextRegenerate ==
    \/ Next
    \/ Regenerate

SpecRegenerate == InitRegenerate /\ [][NextRegenerate]_vars

(***************************************************************************)
(* RoomGenerator._apply as a function of RoomGenerator.rooms: the rooms    *)
(* are drawn, one rectangle each, from the rectangles of the map large     *)
(* enough to hold a floor; they may overlap, as the rooms of two calls of  *)
(* generate() do.                                                          *)
(***************************************************************************)
\* the rectangles inside the map from 3x3 up to the largest room size
FlooredRects ==
    { r \in { Rect(Point(x, y), Size(w, h)) :
                x \in 0..MapWidth, y \in 0..MapHeight,
                w \in 3..MaximumRoomSize("BSP").width,
                h \in 3..MaximumRoomSize("BSP").height } :
        max_x(r) < MapWidth /\ max_y(r) < MapHeight }

InitApply ==
    /\ config = Configuration("BSP", "Rectangular", MaxRooms, 50, 1, "map")
    /\ pc = "apply"
    /\ raised = ""
    /\ rects = <<>>
    /\ attempts = 0
    /\ nodes = <<BSPRoot>>
    /\ split = 1
    /\ visit = 1
    /\ nodes_with_rooms = {}
    /\ rect = NoRect
    /\ \E n \in 0..MaxRooms : \E bounds \in [1..n -> FlooredRects] :
          rooms = [i \in 1..n |-> RectangularRoom(bounds[i])]
    /\ up_stair_room = 0
    /\ down_stair_room = 0
    /\ up_stairs = <<>>
    /\ down_stairs = <<>>
    /\ tiles = make_grid(MapWidth, MapHeight, Empty)
    /\ corridors = <<>>
    /\ yielded = <<>>
    /\ carved = <<>>
    /\ written = {}
    /\ generation = 1
    /\ atomaton = NoAtomaton

NextApply == Apply

SpecApply == InitApply /\ [][NextApply]_vars

(***************************************************************************)
(* RectangularRoomMethod.room_in_rect as a function of the rectangle: the  *)
(* loop of RoomGenerator.generate has pulled a rectangle, any rectangle of *)
(* positive width and height inside the map, and makes the room.           *)
(***************************************************************************)
PositiveRects ==
    { r \in { Rect(Point(x, y), Size(w, h)) :
                x \in 0..MapWidth, y \in 0..MapHeight,
                w \in 1..MapWidth, h \in 1..MapHeight } :
        max_x(r) < MapWidth /\ max_y(r) < MapHeight }

InitRoomInRect ==
    /\ config = Configuration("Random", "Rectangular", 1, 50, 1, "map")
    /\ pc = "room"
    /\ raised = ""
    /\ rect \in PositiveRects
    /\ rects = <<rect>>
    /\ attempts = 0
    /\ nodes = <<BSPRoot>>
    /\ split = 1
    /\ visit = 1
    /\ nodes_with_rooms = {}
    /\ rooms = <<>>
    /\ up_stair_room = 0
    /\ down_stair_room = 0
    /\ up_stairs = <<>>
    /\ down_stairs = <<>>
    /\ tiles = make_grid(MapWidth, MapHeight, Empty)
    /\ corridors = <<>>
    /\ yielded = <<rect>>
    /\ carved = <<>>
    /\ written = {}
    /\ generation = 1
    /\ atomaton = NoAtomaton

NextRoomInRect == RoomInRect

SpecRoomInRect == InitRoomInRect /\ [][NextRoomInRect]_vars

(***************************************************************************)
(* ElbowCorridorGenerator.generate and apply as functions of the rooms of  *)
(* the map they are handed: the rooms are drawn, up to MaxRooms + 1 of     *)
(* them, from the 2x2 rectangles that tile the map (the map is too small   *)
(* for more than two rooms with a floor).                                  *)
(***************************************************************************)
TilingRects ==
    { r \in { Rect(Point(x, y), MinimumRoomSize("BSP")) :
                x \in 0..MapWidth, y \in 0..MapHeight } :
        /\ r.origin.x % r.size.width = 0
        /\ r.origin.y % r.size.height = 0
        /\ max_x(r) < MapWidth
        /\ max_y(r) < MapHeight }

InitCorridors ==
    /\ config = Configuration("BSP", "Rectangular", MaxRooms + 1, 50, 1, "map")
    /\ pc = "corridors"
    /\ raised = ""
    /\ rects = <<>>
    /\ attempts = 0
    /\ nodes = <<BSPRoot>>
    /\ split = 1
    /\ visit = 1
    /\ nodes_with_rooms = {}
    /\ rect = NoRect
    /\ \E n \in 0..(MaxRooms + 1) : \E bounds \in [1..n -> TilingRects] :
          rooms = [i \in 1..n |-> RectangularRoom(bounds[i])]
    /\ up_stair_room = 0
    /\ down_stair_room = 0
    /\ up_stairs = <<>>
    /\ down_stairs = <<>>
    /\ tiles = make_grid(MapWidth, MapHeight, Empty)
    /\ corridors = <<>>
    /\ yielded = <<>>
    /\ carved = <<>>
    /\ written = {}
    /\ generation = 1
    /\ atomaton = NoAtomaton

NextCorridors ==
    \/ CorridorGenerate
    \/ CorridorApply

SpecCorridors == InitCorridors /\ [][NextCorridors]_vars

(***************************************************************************)
(* OrRoomMethod.room_in_rect as a function of the list of methods, the     *)
(* rectangle and the value random.random() returns (config.factor): the    *)
(* loop of RoomGenerator.generate has pulled a rectangle and makes the     *)
(* room.                                                                   *)
(***************************************************************************)
\* the sum of the probabilities of methods[i..]
RECURSIVE SumOfProbabilities(_, _)
SumOfProbabilities(methods, i) ==
    IF i > Len(methods) THEN 0 ELSE methods[i][1] + SumOfProbabilities(methods, i + 1)

\* the lists OrRoomMethod.__init__ accepts: the probabilities sum to 1
OrMethodLists ==
    UNION { { methods \in [1..n -> (0..RandomSteps) \X OrMethodKinds] :
                SumOfProbabilities(methods, 1) = RandomSteps } : n \in 1..MaxMethods }

InitOrRoom ==
    /\ \E methods \in OrMethodLists : \E factor \in 0..(RandomSteps - 1) :
          config = Configuration("Random", "Or", 1, 50, 1, "map")
                      @@ [methods |-> methods, factor |-> factor]
    /\ pc = "room"
    /\ raised = ""
    /\ rect = Rect(Point(0, 0), Size(3, 3))
    /\ rects = <<rect>>
    /\ attempts = 0
    /\ nodes = <<BSPRoot>>
    /\ split = 1
    /\ visit = 1
    /\ nodes_with_rooms = {}
    /\ rooms = <<>>
    /\ up_stair_room = 0
    /\ down_stair_room = 0
    /\ up_stairs = <<>>
    /\ down_stairs = <<>>
    /\ tiles = make_grid(MapWidth, MapHeight, Empty)
    /\ corridors = <<>>
    /\ yielded = <<rect>>
    /\ carved = <<>>
    /\ written = {}
    /\ generation = 1
    /\ atomaton = NoAtomaton

NextOrRoom == RoomInRect

SpecOrRoom == InitOrRoom /\ [][NextOrRoom]_vars

(***************************************************************************)
(* RoomGenerator._generate_stairs as a function of RoomGenerator.rooms,    *)
(* with a fair random.choice: the rooms are drawn, 1 to MaxRooms + 1 of    *)
(* them, from the square rectangles at the origin that hold a floor, and   *)
(* whenever the loop keeps drawing, every room is drawn at some time.      *)
(***************************************************************************)
InitStairs ==
    /\ config = Configuration("BSP", "Rectangular", MaxRooms + 1, 50, 1, "map")
    /\ pc = "stairs_up"
    /\ raised = ""
    /\ rects = <<>>
    /\ attempts = 0
    /\ nodes = <<BSPRoot>>
    /\ split = 1
    /\ visit = 1
    /\ nodes_with_rooms = {}
    /\ rect = NoRect
    /\ \E n \in 1..(MaxRooms + 1) :
          \E bounds \in [1..n -> { r \in FlooredRects : /\ r.origin = Point(0, 0)
                                                       /\ r.size.width = r.size.height }] :
             rooms = [i \in 1..n |-> RectangularRoom(bounds[i])]
    /\ up_stair_room = 0
    /\ down_stair_room = 0
    /\ up_stairs = <<>>
    /\ down_stairs = <<>>
    /\ tiles = make_grid(MapWidth, MapHeight, Empty)
    /\ corridors = <<>>
    /\ yielded = <<>>
    /\ carved = <<>>
    /\ written = {}
    /\ generation = 1
    /\ atomaton = NoAtomaton

NextStairs ==
    \/ StairsUpRoom
    \/ StairsDownRoom
    \/ StairsPoints

\* random.choice(self.rooms) in the loop is fair: no room is left out for ever
FairChoice ==
    \A room \in 1..(MaxRooms + 1) : WF_vars(StairsDownRoom /\ down_stair_room' = room)

SpecStairs == InitStairs /\ [][NextStairs]_vars /\ WF_vars(NextStairs) /\ FairChoice

(***************************************************************************)
(* A CellularAtomataMapGenerator run on its own (ca.py): the constructor,  *)
(* then generate(), which is _fill() and _run_atomaton(), the latter one   *)
(* round at a time.  `rounds` counts the calls of _do_round.               *)
(***************************************************************************)
\* the bounds the automaton is constructed with
AtomatonBounds == Size(AtomatonWidth, 3)

\* larger bounds, for the fills that leave no choice
LargeAtomatonBounds == Size(AtomatonWidth + 2, 5)

\* CellularAtomataMapGenerator.__init__ (seed remembers what _fill left in
\* tiles, rounds counts the calls of _do_round)
NewAtomaton(bounds, fill_percentage, number_of_rounds) ==
    [pc |-> "fill",
     bounds |-> bounds,
     fill_percentage |-> fill_percentage,
     number_of_rounds |-> number_of_rounds,
     tiles |-> make_grid(bounds.width, bounds.height, Empty),
     alternate_tiles |-> <<>>,
     seed |-> <<>>,
     i |-> 0,
     rounds |-> 0,
     raised |-> ""]

InitAtomaton ==
    /\ config \in { Configuration("OneBigRoom", "CellularAtomaton", 1, fill, rounds, "map") :
                        fill \in {0, 50, 100}, rounds \in (-1)..MaxRounds }
    /\ Constructed
    /\ \E bounds \in {AtomatonBounds, LargeAtomatonBounds} :
         /\ bounds = LargeAtomatonBounds => config.fill_percentage \in {0, 100}
         /\ atomaton = NewAtomaton(bounds, config.fill_percentage, config.number_of_rounds)

\* generate: self._fill()
AtomatonFill ==
    /\ atomaton.pc = "fill"
    /\ \E seed \in fill_grids(atomaton.bounds.width, atomaton.bounds.height,
                               atomaton.fill_percentage) :
         atomaton' = [atomaton EXCEPT !.tiles = seed, !.seed = seed, !.pc = "run"]
    /\ UNCHANGED <<config, generation, pc, raised, rect_vars, rect, rooms, stair_vars, map_vars,
                   yielded, carved>>

\* _run_atomaton up to the loop: alternate_tiles is made, and
\* number_of_rounds < 1 raises ValueError
AtomatonRun ==
    /\ atomaton.pc = "run"
    /\ atomaton' =
         [atomaton EXCEPT
            !.alternate_tiles = make_grid(atomaton.bounds.width, atomaton.bounds.height, Empty),
            !.pc = IF TooFewRounds(atomaton.number_of_rounds) THEN "raised" ELSE "round",
            !.raised = IF TooFewRounds(atomaton.number_of_rounds) THEN "ValueError" ELSE @]
    /\ UNCHANGED <<config, generation, pc, raised, rect_vars, rect, rooms, stair_vars, map_vars,
                   yielded, carved>>

\* one pass of `for i in range(number_of_rounds)`
AtomatonRound ==
    /\ atomaton.pc = "round"
    /\ atomaton.i < atomaton.number_of_rounds
    /\ LET w == atomaton.bounds.width
           h == atomaton.bounds.height
       IN  atomaton' =
             IF atomaton.i % 2 = 0
             THEN [atomaton EXCEPT !.alternate_tiles = do_round(atomaton.tiles, w, h),
                                   !.i = @ + 1, !.rounds = @ + 1]
             ELSE [atomaton EXCEPT !.tiles = do_round(atomaton.alternate_tiles, w, h),
                                   !.i = @ + 1, !.rounds = @ + 1]
    /\ UNCHANGED <<config, generation, pc, raised, rect_vars, rect, rooms, stair_vars, map_vars,
                   yielded, carved>>

\* _run_atomaton after the loop
AtomatonFinish ==
    /\ atomaton.pc = "round"
    /\ atomaton.i >= atomaton.number_of_rounds
    /\ atomaton' =
         [atomaton EXCEPT
            !.tiles = tiles_after_rounds(atomaton.tiles, atomaton.alternate_tiles,
                                         atomaton.number_of_rounds),
            !.pc = "done"]
    /\ UNCHANGED <<config, generation, pc, raised, rect_vars, rect, rooms, stair_vars, map_vars,
                   yielded, carved>>

NextAtomaton ==
    \/ AtomatonFill
    \/ AtomatonRun
    \/ AtomatonRound
    \/ AtomatonFinish

SpecAtomaton == InitAtomaton /\ [][NextAtomaton]_vars

(***************************************************************************)
(* The claims.                                                             *)
(***************************************************************************)
\* room_in_rect has returned None in this run
HadNone == \E i \in 1..Len(carved) : carved[i] = "none"

\* the run is over: an exception left generate, or generate returned
Ended == pc \in {"raised", "done"}

\* C1: the first None the room carver returns ends room accumulation for
\* the whole run.  The step that carves None leaves the room list as it
\* was, and from then on no rectangle is pulled from the rectangle
\* strategy, none is carved, and the room list never changes.
C1_NoneIsHardStop ==
    [][ /\ HadNone' => rooms' = rooms
        /\ HadNone => (yielded' = yielded /\ carved' = carved) ]_vars

\* a BSP run in which the first rectangle became a room and the second
\* was carved to None while the traversal had nodes and rooms to go, and
\* which went on to place the stairs
C1_Witness ==
    /\ HadNone
    /\ config.rect_method = "BSP"
    /\ Len(rooms) >= 1
    /\ Len(yielded) < config.number_of_rooms
    /\ visit <= Len(nodes)
    /\ Len(up_stairs) = 1

\* C2: a run whose rectangle strategy yields no rectangle finishes without
\* raising, with no rooms, no corridors, no up stairs and no down stairs,
\* and with every tile of the map Empty.
C2_ZeroRectanglesRunIsEmpty ==
    (Len(yielded) = 0 /\ Ended) =>
        /\ pc = "done"
        /\ raised = ""
        /\ rooms = <<>>
        /\ corridors = <<>>
        /\ up_stairs = <<>>
        /\ down_stairs = <<>>
        /\ \A p \in MapPoints : tiles[p] = Empty

\* C3: a run with a valid configuration (number_of_rounds >= 1) raises
\* nothing, whatever the random draws, a room with no walkable point
\* included.  Stated for the runs that hand the corridor generator an
\* object with the attributes it reads, so that the exception of C2 is
\* left aside.
C3_ValidRunRaisesNothing ==
    (config.number_of_rounds >= 1 /\ HasMapAttributes(config.corridor_arg)) => raised = ""

\* C5: every index at which a tile of the map was written (a floor or a
\* wall of a room, a stair, a point of a corridor, a wall beside one) is a
\* point of the map, 0 <= x < width and 0 <= y < height.  Every
\* configuration has room sizes that fit inside the map.
C5_WrittenPointsInBounds == \A p \in written : tile_is_in_bounds(p)

\* a finished run with two rooms, a corridor and both stairs whose writes
\* reach all four edges of the map
C5_Witness ==
    /\ pc = "done"
    /\ Len(rooms) >= 2
    /\ Len(corridors) >= 1
    /\ Len(up_stairs) = 1
    /\ Len(down_stairs) = 1
    /\ \E p \in written : p.x = 0
    /\ \E p \in written : p.x = MapWidth - 1
    /\ \E p \in written : p.y = 0
    /\ \E p \in written : p.y = MapHeight - 1

\* C6: in a run of RandomRectMethod no two yielded rectangles share a
\* cell, and none intersects (Rect.intersects) a rectangle yielded before
\* it.
C6_YieldedRectsDisjoint ==
    config.rect_method = "Random" =>
        \A i, j \in 1..Len(yielded) :
            i < j => /\ RectPoints(yielded[i]) \cap RectPoints(yielded[j]) = {}
                     /\ ~intersects(yielded[j], yielded[i])

\* two rectangles yielded side by side, the second beginning in the column
\* after the last column of the first, both in the same rows
C6_Witness ==
    /\ config.rect_method = "Random"
    /\ Len(yielded) = 2
    /\ min_x(yielded[2]) = max_x(yielded[1]) + 1
    /\ min_y(yielded[2]) = min_y(yielded[1])
    /\ max_y(yielded[2]) = max_y(yielded[1])

\* C7: RandomRectMethod makes at most NUMBER_OF_ATTEMPTS_PER_RECT attempts
\* for a rectangle.  Once that many candidates in a row have overlapped,
\* the method yields nothing more and the room list stays as it is; the
\* step that gives up raises nothing and passes to what follows the loop
\* of RoomGenerator.generate.
C7_AttemptBudget ==
    [][ /\ attempts' <= NUMBER_OF_ATTEMPTS_PER_RECT
        /\ (config.rect_method = "Random" /\ attempts = NUMBER_OF_ATTEMPTS_PER_RECT) =>
              /\ yielded' = yielded
              /\ rects' = rects
              /\ rooms' = rooms
              /\ pc = "rect" =>
                    /\ raised' = ""
                    /\ pc' = IF Len(rooms) = 0 THEN "apply" ELSE "stairs_up" ]_vars

\* a run that gave up on its second rectangle and went on, without an
\* exception, to stamp its one room
C7_Witness ==
    /\ config.rect_method = "Random"
    /\ attempts = NUMBER_OF_ATTEMPTS_PER_RECT
    /\ Len(yielded) = 1
    /\ Len(yielded) < config.number_of_rooms
    /\ Len(rooms) = 1
    /\ pc = "apply_stairs"
    /\ raised = ""

\* C8: RandomRectMethod and BSPRectMethod yield at most number_of_rooms
\* rectangles, and the generator holds at most number_of_rooms rooms.
C8_AtMostNumberOfRooms ==
    config.rect_method \in {"Random", "BSP"} =>
        /\ Len(yielded) <= config.number_of_rooms
        /\ Len(rooms) <= config.number_of_rooms

\* a BSP traversal that stopped at number_of_rooms rectangles although a
\* node was left that is small enough and has no room at or above it
C8_Witness ==
    /\ config.rect_method = "BSP"
    /\ config.number_of_rooms >= 1
    /\ Len(yielded) = config.number_of_rooms
    /\ pc \notin {"rect", "room"}
    /\ \E n \in 1..Len(nodes) :
         /\ ~ExceedsMaximumSize(nodes[n])
         /\ ~HasRoomAbove(nodes, nodes_with_rooms, n)

\* the proper ancestors of node n of the tree
RECURSIVE AncestorsOf(_)
AncestorsOf(n) ==
    IF nodes[n].parent = 0 THEN {}
    ELSE {nodes[n].parent} \cup AncestorsOf(nodes[n].parent)

\* C9: in the traversal of BSPRectMethod no node is accepted when one of
\* its ancestors was; so no yielded rectangle lies inside another.
C9_NoRoomBelowARoom ==
    config.rect_method = "BSP" =>
        /\ \A n \in nodes_with_rooms : AncestorsOf(n) \cap nodes_with_rooms = {}
        /\ \A i, j \in 1..Len(yielded) :
             i # j => ~(RectPoints(yielded[i]) \subseteq RectPoints(yielded[j]))

\* the traversal has passed a child of an accepted node while rooms were
\* still wanted: the child was skipped for its parent's room
C9_Witness ==
    /\ config.rect_method = "BSP"
    /\ Cardinality(nodes_with_rooms) < config.number_of_rooms
    /\ \E m \in 1..Len(nodes) :
         /\ nodes[m].parent \in nodes_with_rooms
         /\ visit > m

\* C10: a cellular automaton asked for fewer than one round raises
\* ValueError from _run_atomaton and runs no round: it is never in the
\* loop nor finished, and _do_round is never called.
C10_TooFewRoundsRaise ==
    atomaton.number_of_rounds < 1 =>
        /\ atomaton.rounds = 0
        /\ atomaton.pc \in {"fill", "run", "raised"}
        /\ atomaton.pc = "raised" <=> atomaton.raised = "ValueError"

\* the automaton asked for zero rounds has raised
C10_Witness ==
    /\ atomaton.number_of_rounds = 0
    /\ atomaton.pc = "raised"
    /\ atomaton.raised = "ValueError"
    /\ atomaton.rounds = 0

\* the cells of a grid w wide and h high whose eight neighbours are all
\* cells of the grid
InteriorCells(w, h) == { p \in GridPoints(w, h) : neighbors(p) \subseteq GridPoints(w, h) }

\* C11: filled everywhere with Floor (fill_percentage 1.0) and run for one
\* round or more, the automaton ends with Floor in every interior cell.
C11_FullFillInteriorIsFloor ==
    (atomaton.pc = "done" /\ atomaton.fill_percentage = 100) =>
        \A p \in InteriorCells(atomaton.bounds.width, atomaton.bounds.height) :
            atomaton.tiles[p] = Floor

\* a full grid run for two rounds or more: nine interior cells are Floor
\* and a cell of the border is not
C11_Witness ==
    /\ atomaton.pc = "done"
    /\ atomaton.fill_percentage = 100
    /\ atomaton.number_of_rounds >= 2
    /\ Cardinality(InteriorCells(atomaton.bounds.width, atomaton.bounds.height)) >= 9
    /\ \E p \in GridPoints(atomaton.bounds.width, atomaton.bounds.height) :
         atomaton.tiles[p] = Empty

\* the rooms carved since generate was last called
RoomsOfThisRun == Cardinality({ i \in 1..Len(carved) : carved[i] = "room" })

\* C12: when generate is called a second time on the same generator
\* objects, the lists hold at its end what the second run made and
\* nothing of the first: as many rooms as it carved, one corridor between
\* neighbours of those, and one up stair and one down stair at most.
C12_SecondRunReplacesOutputs ==
    (generation = 2 /\ Ended) =>
        /\ Len(rooms) = RoomsOfThisRun
        /\ Len(corridors) <= Max0(RoomsOfThisRun - 1)
        /\ Len(up_stairs) <= 1
        /\ Len(down_stairs) <= 1

(***************************************************************************)
(* C13: right after the rooms are stamped, every floor point of every room *)
(* holds Floor, also where a wall point of another room is the same cell:  *)
(* the floors of all rooms are written before any wall, and a wall is      *)
(* written only where the tile is Empty.                                   *)
(***************************************************************************)
C13_FloorsSurviveWalls ==
    (pc = "apply_stairs") =>
        \A i \in 1..Len(rooms) : \A pt \in SeqSet(floor_points(rooms[i])) :
            tiles[MapCell(pt)] = Floor

\* two rooms are stamped, and a floor point of one is a wall point of the other
C13_Witness ==
    /\ pc = "apply_stairs"
    /\ \E i, j \in 1..Len(rooms) :
          /\ i < j
          /\ SeqSet(floor_points(rooms[j])) \cap SeqSet(wall_points(rooms[i])) # {}
          /\ SeqSet(floor_points(rooms[i])) \cap SeqSet(wall_points(rooms[j])) # {}

(***************************************************************************)
(* C14: once _generate_stairs has placed both stairs, the down-stair room  *)
(* is another room than the up-stair room when there are two rooms or      *)
(* more, both stairs are in the only room when there is exactly one, and   *)
(* each stair point is one of the walkable points of its room.             *)
(***************************************************************************)
StairsPlaced == generation = 1 /\ Len(up_stairs) = 1 /\ Len(down_stairs) = 1

C14_StairRoomsAndPoints ==
    StairsPlaced =>
        /\ up_stair_room \in 1..Len(rooms)
        /\ down_stair_room \in 1..Len(rooms)
        /\ Len(rooms) >= 2 => down_stair_room # up_stair_room
        /\ Len(rooms) = 1 => down_stair_room = up_stair_room
        /\ up_stairs[1] \in SeqSet(walkable_tiles(rooms[up_stair_room]))
        /\ down_stairs[1] \in SeqSet(walkable_tiles(rooms[down_stair_room]))

\* both stairs are placed among two rooms, the down stairs in the first
C14_Witness ==
    /\ StairsPlaced
    /\ Len(rooms) = 2
    /\ down_stair_room = 1
    /\ up_stair_room = 2

(***************************************************************************)
(* C15: a corridor runs from the midpoint S of one room to the midpoint E  *)
(* of another by way of a corner C that is (E.x, S.y) or (S.x, E.y): its   *)
(* first point is S, its last is E, C is in it twice in a row, the points  *)
(* up to the first C lie on the straight line from S to C and those from   *)
(* the second C on the straight line from C to E, one step apart.          *)
(***************************************************************************)
\* p is on the line between a and b, which share a row or a column
OnStraightLine(p, a, b) ==
    /\ a.x = b.x \/ a.y = b.y
    /\ (a.x <= p.x /\ p.x <= b.x) \/ (b.x <= p.x /\ p.x <= a.x)
    /\ (a.y <= p.y /\ p.y <= b.y) \/ (b.y <= p.y /\ p.y <= a.y)

OneStepApart(p, q) == Abs(p.x - q.x) + Abs(p.y - q.y) = 1

IsElbow(corridor, S, E) ==
    \E C \in {Point(E.x, S.y), Point(S.x, E.y)} :
        \E k \in 1..(Len(corridor) - 1) :
            /\ corridor[1] = S
            /\ corridor[Len(corridor)] = E
            /\ corridor[k] = C
            /\ corridor[k + 1] = C
            /\ \A n \in 1..k : OnStraightLine(corridor[n], S, C)
            /\ \A n \in (k + 1)..Len(corridor) : OnStraightLine(corridor[n], C, E)
            /\ \A n \in 1..(Len(corridor) - 1) :
                  n # k => OneStepApart(corridor[n], corridor[n + 1])

C15_CorridorsAreElbows ==
    \A c \in 1..Len(corridors) :
        \E i, j \in 1..Len(rooms) :
            /\ i # j
            /\ IsElbow(corridors[c], midpoint(rooms[i].bounds), midpoint(rooms[j].bounds))

\* a corridor that turns: its ends share neither a row nor a column
C15_Witness ==
    /\ pc = "done"
    /\ \E c \in 1..Len(corridors) :
          LET corridor == corridors[c]
          IN  /\ corridor[1].x # corridor[Len(corridor)].x
              /\ corridor[1].y # corridor[Len(corridor)].y

(***************************************************************************)
(* C16: for a RectangularRoom over bounds of positive width and height,    *)
(* wall_points yields every point of the border ring of the bounds once    *)
(* and no other point, floor_points yields exactly the points of the       *)
(* bounds inset by 1; the two are disjoint and together are the bounds.    *)
(***************************************************************************)
BorderRing(bounds) ==
    { pt \in RectPoints(bounds) :
        pt.x \in {min_x(bounds), max_x(bounds)} \/ pt.y \in {min_y(bounds), max_y(bounds)} }

InsetByOne(bounds) ==
    { pt \in RectPoints(bounds) :
        /\ min_x(bounds) < pt.x /\ pt.x < max_x(bounds)
        /\ min_y(bounds) < pt.y /\ pt.y < max_y(bounds) }

YieldsEachOnce(points) ==
    \A m, n \in 1..Len(points) : points[m] = points[n] => m = n

C16_WallRingOnceFloorInset ==
    \A i \in 1..Len(rooms) :
        rooms[i].kind = "Rectangular" =>
            LET bounds == rooms[i].bounds
                walls == wall_points(rooms[i])
                floors == floor_points(rooms[i])
            IN  /\ SeqSet(walls) = BorderRing(bounds)
                /\ YieldsEachOnce(walls)
                /\ SeqSet(floors) = InsetByOne(bounds)
                /\ SeqSet(walls) \cap SeqSet(floors) = {}
                /\ SeqSet(walls) \cup SeqSet(floors) = RectPoints(bounds)

(***************************************************************************)
(* C17: the stairs are placed last: while the corridors are still to be    *)
(* routed or stamped, no tile of the map is StairsUp or StairsDown.        *)
(***************************************************************************)
StairsOnMap == \E idx \in DOMAIN tiles : tiles[idx] \in {StairsUp, StairsDown}

C17_StairsAfterCorridors ==
    StairsOnMap => pc \notin {"corridors", "apply_corridors"}

(***************************************************************************)
(* C18: after generate() with number_of_rounds = N >= 1 the result grid is *)
(* the one-step rule applied N times to the grid _fill left.               *)
(***************************************************************************)
\* the one-step rule applied n times
RECURSIVE rounds_applied(_, _, _, _)
rounds_applied(grid, w, h, n) ==
    IF n <= 0 THEN grid ELSE rounds_applied(do_round(grid, w, h), w, h, n - 1)

C18_ResultIsAllRounds ==
    (atomaton.pc = "done") =>
        atomaton.tiles = rounds_applied(atomaton.seed, atomaton.bounds.width,
                                        atomaton.bounds.height, atomaton.number_of_rounds)

(***************************************************************************)
(* C19: in a step, a neighbour position outside the area adds nothing to   *)
(* the count of a cell: the count of every cell, on the edges and corners  *)
(* too, is 1 plus the number of its neighbours inside the area that are    *)
(* Floor in the grid the step reads.                                       *)
(***************************************************************************)
\* a round has run and the loop has not been left: the grid the last
\* round read and the grid it wrote
RoundDone == atomaton.pc = "round" /\ atomaton.i >= 1

LastFromTiles == IF (atomaton.i - 1) % 2 = 0 THEN atomaton.tiles ELSE atomaton.alternate_tiles

LastToTiles == IF (atomaton.i - 1) % 2 = 0 THEN atomaton.alternate_tiles ELSE atomaton.tiles

\* the neighbours of pt inside the area that are Floor
floor_neighbors_inside(from_tiles, w, h, pt) ==
    { n \in neighbors(pt) \cap GridPoints(w, h) : from_tiles[n] = Floor }

C19_OutsideNeighborsSkipped ==
    RoundDone =>
        \A pt \in GridPoints(atomaton.bounds.width, atomaton.bounds.height) :
            number_of_neighbors(LastFromTiles, atomaton.bounds.width,
                                atomaton.bounds.height, pt)
            = 1 + Cardinality(floor_neighbors_inside(LastFromTiles, atomaton.bounds.width,
                                                     atomaton.bounds.height, pt))

(***************************************************************************)
(* C20: after a step, a cell of the grid written is Floor exactly when 1   *)
(* plus the number of Floor cells among its Moore neighbours in the grid   *)
(* read is at least 5, whatever the cell was, and Empty otherwise; the     *)
(* grid read is as it was (after the first step it still is the seed).     *)
(***************************************************************************)
C20_SameThresholdBothBranches ==
    RoundDone =>
        /\ \A pt \in GridPoints(atomaton.bounds.width, atomaton.bounds.height) :
              LastToTiles[pt] =
                 IF 1 + Cardinality(floor_neighbors_inside(LastFromTiles, atomaton.bounds.width,
                                                           atomaton.bounds.height, pt))
                      >= CA_THRESHOLD
                 THEN Floor ELSE Empty
        /\ atomaton.i = 1 => LastFromTiles = atomaton.seed

(***************************************************************************)
(* C21: for a BSP node that passes the size test and the ancestor test,    *)
(* the probability of a room is 1 / max(width - min_width, height -        *)
(* min_height), and 1.0 when that maximum is 0 or less.                    *)
(***************************************************************************)
\* the level_order loop is at a node that passes the three tests: the draw
\* against probability_of_room is next
DrawsForNode ==
    /\ pc = "rect"
    /\ config.rect_method = "BSP"
    /\ TreeBuilt
    /\ visit <= Len(nodes)
    /\ ~ExceedsMaximumSize(nodes[visit])
    /\ ~GeneratedEnoughRooms(nodes_with_rooms)
    /\ ~HasRoomAbove(nodes, nodes_with_rooms, visit)

\* 1 / max(a, b), and 1 when max(a, b) <= 0
ReciprocalOfMax(a, b) ==
    LET m == IF a >= b THEN a ELSE b
    IN  IF m <= 0 THEN <<1, 1>> ELSE <<1, m>>

FracEq(a, b) == FracLe(a, b) /\ FracLe(b, a)

C21_ProbabilityIsReciprocalOfMax ==
    DrawsForNode =>
        FracEq(probability_of_room(nodes[visit].w, nodes[visit].h, config.minimum_room_size),
               ReciprocalOfMax(nodes[visit].w - config.minimum_room_size.width,
                               nodes[visit].h - config.minimum_room_size.height))

(***************************************************************************)
(* C22: the corridor generator has sorted the rooms by the origin of their *)
(* bounds: the sorted sequence is the same for every order the same rooms  *)
(* could have been accumulated in.                                         *)
(***************************************************************************)
CorridorsGenerated == generation = 1 /\ pc \in {"apply_corridors", "done"}

\* the rooms, accumulated in another order
Reordered(the_rooms, order) == [i \in 1..Len(the_rooms) |-> the_rooms[order[i]]]

C22_SortedWhateverTheOrder ==
    CorridorsGenerated =>
        \A order \in Permutations(1..Len(rooms)) :
            sorted_rooms(Reordered(rooms, order)) = sorted_rooms(rooms)

(***************************************************************************)
(* C23: one pass of the corridor generator over n rooms leaves n - 1       *)
(* corridors for n >= 2 and none for n < 2, the i-th from the midpoint of  *)
(* the i-th room of the sorted order to the midpoint of the (i+1)-th: a    *)
(* path through the rooms, without a cycle.                                *)
(***************************************************************************)
C23_CorridorsJoinNeighbours ==
    CorridorsGenerated =>
        LET sorted == sorted_rooms(rooms)
        IN  /\ Len(corridors) = Max0(Len(rooms) - 1)
            /\ \A i \in 1..Len(corridors) :
                  /\ corridors[i][1] = midpoint(sorted[i].bounds)
                  /\ corridors[i][Len(corridors[i])] = midpoint(sorted[i + 1].bounds)

\* three rooms are joined by two corridors
C23_Witness ==
    /\ CorridorsGenerated
    /\ Len(rooms) = 3
    /\ Len(corridors) = 2
    /\ corridors[1][1] # corridors[2][1]

(***************************************************************************)
(* C24: the step that stamps the corridors makes every corridor point      *)
(* Floor, makes Wall every neighbour of a corridor point that is inside    *)
(* the map and Empty, and leaves every other tile as it was: a neighbour   *)
(* that is Floor, Wall or a stair, and every tile that is neither a        *)
(* corridor point nor a neighbour of one.                                  *)
(***************************************************************************)
CorridorPoints == UNION { SeqSet(corridors[c]) : c \in 1..Len(corridors) }

CorridorNeighbors == UNION { neighbors(pt) : pt \in CorridorPoints } \cap DOMAIN tiles

C24_CorridorStampFrame ==
    [][(pc = "apply_corridors" /\ pc' = "done") =>
          \A idx \in DOMAIN tiles :
              tiles'[idx] = IF idx \in CorridorPoints THEN Floor
                            ELSE IF idx \in CorridorNeighbors /\ tiles[idx] = Empty THEN Wall
                            ELSE tiles[idx]]_vars

\* corridors are stamped, and beside them lie a stair, a Floor that is no
\* corridor point, and a Wall a room left
C24_Witness ==
    /\ pc = "done"
    /\ Len(corridors) >= 1
    /\ \E idx \in CorridorNeighbors \ CorridorPoints : tiles[idx] \in {StairsUp, StairsDown}
    /\ \E idx \in CorridorNeighbors \ CorridorPoints : tiles[idx] = Floor
    /\ \E i \in 1..Len(rooms) :
          \E idx \in SeqSet(wall_points(rooms[i])) \cap (CorridorNeighbors \ CorridorPoints) :
              tiles[idx] = Wall

(***************************************************************************)
(* C25: a room the cellular automaton carved from a rectangle at least 3   *)
(* wide and 3 high has a grid of the size of the rectangle; its Floor      *)
(* cells are the Floor cells of a result of the automaton over the inset   *)
(* area, moved by (1, 1), so the outer ring holds no Floor; a cell is Wall *)
(* exactly when it is not Floor and one of its neighbours inside the grid  *)
(* is Floor; every other cell is Empty.                                    *)
(***************************************************************************)
\* the cells of a w by h grid that are not on its outer ring
InsideRing(w, h) == { p \in GridPoints(w, h) : 1 <= p.x /\ p.x < w - 1 /\ 1 <= p.y /\ p.y < h - 1 }

\* the Floor cells of the room's grid are those of the automaton grid, moved by (1, 1)
FloorIsMovedResult(room_tiles, w, h, result) ==
    \A p \in GridPoints(w, h) :
        room_tiles[p] = Floor <=> (p \in InsideRing(w, h) /\ result[Point(p.x - 1, p.y - 1)] = Floor)

IsCarvedRoom(room) ==
    LET w == room.bounds.size.width
        h == room.bounds.size.height
    IN  /\ DOMAIN room.tiles = GridPoints(w, h)
        /\ \E seed \in fill_grids(w - 2, h - 2, config.fill_percentage) :
              FloorIsMovedResult(room.tiles, w, h,
                                 run_atomaton(seed, w - 2, h - 2, config.number_of_rounds))
        /\ \A p \in GridPoints(w, h) :
              /\ room.tiles[p] \in {Floor, Wall, Empty}
              /\ room.tiles[p] = Wall <=>
                    /\ room.tiles[p] # Floor
                    /\ \E n \in neighbors(p) \cap GridPoints(w, h) : room.tiles[n] = Floor

C25_CarvedRoomGrid ==
    \A i \in 1..Len(rooms) :
        (/\ rooms[i].kind = "Freeform"
         /\ rooms[i].bounds.size.width >= 3
         /\ rooms[i].bounds.size.height >= 3) => IsCarvedRoom(rooms[i])

\* a carved room with a Floor cell off the ring, a Wall on the ring, a Wall
\* off the ring and an Empty cell
C25_Witness ==
    \E i \in 1..Len(rooms) :
        LET room == rooms[i]
            w == room.bounds.size.width
            h == room.bounds.size.height
        IN  /\ room.kind = "Freeform"
            /\ w >= 3
            /\ h >= 3
            /\ \E p \in InsideRing(w, h) : room.tiles[p] = Floor
            /\ \E p \in InsideRing(w, h) : room.tiles[p] = Wall
            /\ \E p \in GridPoints(w, h) \ InsideRing(w, h) : room.tiles[p] = Wall
            /\ \E p \in GridPoints(w, h) : room.tiles[p] = Empty

(***************************************************************************)
(* C26: OrRoomMethod, given a list of methods whose probabilities sum to 1 *)
(* and a draw in [0, 1), hands the rectangle to one method, the first of   *)
(* the list whose cumulative probability is at or above the draw: what     *)
(* comes back is what that method returns, and None only if that method    *)
(* returned None.                                                          *)
(***************************************************************************)
\* the sum of the probabilities of the first i methods
CumulativeProbability(methods, i) ==
    SumOfProbabilities(methods, 1) - SumOfProbabilities(methods, i + 1)

\* the first method whose cumulative probability is at or above the draw
FirstAtOrAbove(methods, factor) ==
    CHOOSE k \in 1..Len(methods) :
        /\ CumulativeProbability(methods, k) >= factor
        /\ \A j \in 1..(k - 1) : CumulativeProbability(methods, j) < factor

OrRoomMade == config.room_method = "Or" /\ Len(carved) = 1

C26_OrCallsFirstAtOrAbove ==
    OrRoomMade =>
        LET method == config.methods[FirstAtOrAbove(config.methods, config.factor)][2]
            returns == method_room_in_rect(method, config.fill_percentage,
                                           config.number_of_rounds, rect)
        IN  /\ carved[1] \in {"room", "none"}
            /\ carved[1] = "none" => (method = "Optional" /\ rooms = <<>>)
            /\ carved[1] = "room" => (Len(rooms) = 1 /\ Returned(rooms[1]) \in returns)
            /\ (carved[1] = "room" /\ rooms[1].kind = "Freeform") => method = "CellularAtomaton"
            /\ (carved[1] = "room" /\ rooms[1].kind = "Rectangular") => method # "CellularAtomaton"

\* the second of three methods is called, the draw being its cumulative
\* probability exactly, and the third is a method of another kind
C26_Witness ==
    /\ OrRoomMade
    /\ Len(config.methods) = 3
    /\ FirstAtOrAbove(config.methods, config.factor) = 2
    /\ CumulativeProbability(config.methods, 2) = config.factor
    /\ config.methods[2][2] = "CellularAtomaton"
    /\ config.methods[3][2] = "Rectangular"
    /\ config.methods[3][1] > 0
    /\ carved[1] = "room"

(***************************************************************************)
(* C27: when a run that made a room has finished, the tile at every up     *)
(* stair point is StairsUp and the tile at every down stair point is       *)
(* StairsDown.                                                             *)
(***************************************************************************)
C27_StairsKeepTheirTiles ==
    (pc = "done" /\ Len(rooms) >= 1) =>
        /\ \A i \in 1..Len(up_stairs) : tiles[MapCell(up_stairs[i])] = StairsUp
        /\ \A i \in 1..Len(down_stairs) : tiles[MapCell(down_stairs[i])] = StairsDown

(***************************************************************************)
(* C28: after a finished run whose rooms are rectangular and at least 3    *)
(* wide and 3 high, every floor point of every room is reached from every  *)
(* other by a path of walkable tiles, each next to the one before in a row *)
(* or a column.                                                            *)
(***************************************************************************)
\* the cells beside p in its row and its column
FourNeighbors(p) ==
    {Point(p.x - 1, p.y), Point(p.x + 1, p.y), Point(p.x, p.y - 1), Point(p.x, p.y + 1)}

WalkableCells == { idx \in DOMAIN tiles : Walkable(tiles[idx]) }

\* the walkable cells reached from the cells of `reached`
RECURSIVE ReachedFrom(_)
ReachedFrom(reached) ==
    LET next == reached \cup (UNION { FourNeighbors(p) : p \in reached } \cap WalkableCells)
    IN  IF next = reached THEN reached ELSE ReachedFrom(next)

RoomFloorPoints == UNION { SeqSet(floor_points(rooms[i])) : i \in 1..Len(rooms) }

FinishedWithFlooredRooms ==
    /\ pc = "done"
    /\ generation = 1
    /\ \A i \in 1..Len(rooms) :
          /\ rooms[i].kind = "Rectangular"
          /\ rooms[i].bounds.size.width >= 3
          /\ rooms[i].bounds.size.height >= 3

C28_RoomFloorsConnected ==
    FinishedWithFlooredRooms =>
        \A pt \in RoomFloorPoints : RoomFloorPoints \subseteq ReachedFrom({pt})

\* two rooms that do not share a row of floor, joined by a corridor that turns
C28_Witness ==
    /\ FinishedWithFlooredRooms
    /\ Len(rooms) = 2
    /\ Len(corridors) = 1
    /\ midpoint(rooms[1].bounds).y # midpoint(rooms[2].bounds).y
    /\ midpoint(rooms[1].bounds).x # midpoint(rooms[2].bounds).x

(***************************************************************************)
(* C29: in the grid a run ends with, no walkable tile (Floor, StairsUp,    *)
(* StairsDown) has an Empty tile among its neighbours inside the map.      *)
(***************************************************************************)
C29_WalkableTilesEnclosed ==
    Ended =>
        \A idx \in WalkableCells :
            \A nb \in neighbors(idx) \cap DOMAIN tiles : tiles[nb] # Empty

\* a finished run with a room floor tile, a stair tile, and a corridor
\* tile where a room's wall point is
C29_Witness ==
    /\ pc = "done"
    /\ \E idx \in RoomFloorPoints : tiles[idx] = Floor
    /\ \E idx \in RoomFloorPoints : tiles[idx] \in {StairsUp, StairsDown}
    /\ \E i \in 1..Len(rooms) :
          \E idx \in SeqSet(wall_points(rooms[i])) \cap CorridorPoints : tiles[idx] = Floor

(***************************************************************************)
(* C30: stair placement terminates.  With two rooms or more the loop that  *)
(* draws the down-stair room again until it is another room than the       *)
(* up-stair room is left at some time, the choice being fair; with one     *)
(* room the loop is never entered.                                         *)
(***************************************************************************)
C30_StairLoopEnds ==
    /\ (pc = "stairs_down") ~> (pc = "stairs_points")
    /\ [](Len(rooms) = 1 => pc # "stairs_down")

\* the loop has drawn the up-stair room and has to draw again
C30_Witness ==
    /\ pc = "stairs_down"
    /\ down_stair_room # 0
    /\ down_stair_room = up_stair_room
    /\ Len(rooms) >= 3

====
